---- MODULE Spec2Model ----
(***************************************************************************)
(* Model of chunking/recursive_doc_chunking.py: page ranges, heading-based *)
(* sections, page lookup, token-window splitting and the chunk_markdown    *)
(* pipeline.  Texts are sequences of one-character strings; offsets are    *)
(* 0-based as in the source, sequence positions are 1-based.               *)
(***************************************************************************)
EXTENDS Integers, Sequences, FiniteSets, TLC

\* ---------------------------------------------------------------- bounds
MaxLen == 6      \* longest enumerated markdown text
MaxSplitLen == 5 \* longest enumerated text handed directly to recursive_chunk
MaxWin == 2      \* largest window size tried (smallest is -1)
MaxOff == 2      \* largest offset in enumerated page-map entries
MaxPages == 2    \* longest enumerated page map

\* ------------------------------------------------------ optional values
None == <<>>
Some(v) == <<v>>

\* ------------------------------------------------------ string helpers
HASH == "#"
NL == "\n"
SP == " "

\* whitespace as seen by str.split(), str.strip() and the regex class \s
IsSpace(c) == c \in {" ", "\n", "\t", "\r"}

IsDigit(c) == c \in {"0", "1", "2", "3", "4", "5", "6", "7", "8", "9"}

DigitVal(c) ==
  CASE c = "0" -> 0 [] c = "1" -> 1 [] c = "2" -> 2 [] c = "3" -> 3
    [] c = "4" -> 4 [] c = "5" -> 5 [] c = "6" -> 6 [] c = "7" -> 7
    [] c = "8" -> 8 [] c = "9" -> 9

Min(a, b) == IF a <= b THEN a ELSE b

\* position just past the greedy run of whitespace starting at p
RECURSIVE SkipSpace(_, _)
SkipSpace(s, p) ==
  IF p <= Len(s) /\ IsSpace(s[p]) THEN SkipSpace(s, p + 1) ELSE p

\* position just past the greedy run of non-whitespace starting at p
RECURSIVE SkipWord(_, _)
SkipWord(s, p) ==
  IF p <= Len(s) /\ ~IsSpace(s[p]) THEN SkipWord(s, p + 1) ELSE p

\* str.split(): the maximal non-whitespace runs of s from position p on
RECURSIVE SplitFrom(_, _)
SplitFrom(s, p) ==
  LET q == SkipSpace(s, p)
  IN IF q > Len(s) THEN <<>>
     ELSE LET r == SkipWord(s, q)
          IN <<SubSeq(s, q, r - 1)>> \o SplitFrom(s, r)

split(s) == SplitFrom(s, 1)

\* ' '.join(toks)
RECURSIVE join(_)
join(toks) ==
  IF toks = <<>> THEN <<>>
  ELSE IF Len(toks) = 1 THEN toks[1]
  ELSE toks[1] \o <<SP>> \o join(Tail(toks))

\* position of the last non-whitespace character at or before p (0 if none)
RECURSIVE BackSpace(_, _)
BackSpace(s, p) ==
  IF p >= 1 /\ IsSpace(s[p]) THEN BackSpace(s, p - 1) ELSE p

\* str.strip()
strip(s) == SubSeq(s, SkipSpace(s, 1), BackSpace(s, Len(s)))

\* tokens[i:j] for 0 <= i, i <= j (Python slice, clamped to the length)
Slice(seq, i, j) == SubSeq(seq, i + 1, Min(j, Len(seq)))

dummy_tokenizer(text) == Len(split(text))

\* ------------------------------------------------- section_pattern regex
\* length of the run of '#' starting at p
RECURSIVE HashRun(_, _)
HashRun(s, p) ==
  IF p <= Len(s) /\ s[p] = HASH THEN 1 + HashRun(s, p + 1) ELSE 0

\* position just past the greedy '.*' starting at p ('.' excludes newline)
RECURSIVE LineEnd(_, _)
LineEnd(s, p) ==
  IF p <= Len(s) /\ s[p] # NL THEN LineEnd(s, p + 1) ELSE p

\* '^' under re.MULTILINE
AtLineStart(s, p) == p = 1 \/ s[p - 1] = NL

\* largest number of '#' the group (#{1,6}) may take
MaxHashes == 6

\* SectionMatch with the group weakened to (#{0,6})
SectionMatchNoHash(s, p) ==
  LET h == HashRun(s, p)
  IN IF AtLineStart(s, p) /\ h >= 0 /\ h <= MaxHashes
        /\ p + h <= Len(s) /\ IsSpace(s[p + h])
     THEN LET t == SkipSpace(s, p + h)
              e == LineEnd(s, t)
          IN Some([start |-> p - 1,
                   group1 |-> SubSeq(s, p, p + h - 1),
                   group2 |-> SubSeq(s, t, e - 1),
                   end |-> e - 1])
     ELSE None

\* section_pattern anchored at position p: Some(match) or None.
\* (#{1,6}) must be followed by \s, so it matches only a whole run of 1..6.
SectionMatch(s, p) ==
  LET h == HashRun(s, p)
  IN IF AtLineStart(s, p) /\ h >= 1 /\ h <= MaxHashes
        /\ p + h <= Len(s) /\ IsSpace(s[p + h])
     THEN LET t == SkipSpace(s, p + h)
              e == LineEnd(s, t)
          IN Some([start |-> p - 1,
                   group1 |-> SubSeq(s, p, p + h - 1),
                   group2 |-> SubSeq(s, t, e - 1),
                   end |-> e - 1])
     ELSE None

\* section_pattern.finditer(s): leftmost non-overlapping matches from p on
RECURSIVE FindIter(_, _)
FindIter(s, p) ==
  IF p > Len(s) THEN <<>>
  ELSE LET m == SectionMatch(s, p)
       IN IF m # None THEN <<m[1]>> \o FindIter(s, m[1].end + 1)
          ELSE FindIter(s, p + 1)

\* first loop of get_sections: one entry per match
FindHeadings(md) ==
  LET ms == FindIter(md, 1)
  IN [k \in 1..Len(ms) |->
        [level |-> Len(ms[k].group1),
         heading |-> strip(ms[k].group2),
         start_idx |-> ms[k].start]]

\* AddEndIdx with every section running to the end of the text
AddEndIdxToEnd(md, secs) ==
  [k \in 1..Len(secs) |->
     [level |-> secs[k].level,
      heading |-> secs[k].heading,
      start_idx |-> secs[k].start_idx,
      end_idx |-> Len(md)]]

\* second loop of get_sections: end_idx of each section
AddEndIdx(md, secs) ==
  [k \in 1..Len(secs) |->
     [level |-> secs[k].level,
      heading |-> secs[k].heading,
      start_idx |-> secs[k].start_idx,
      end_idx |-> IF k < Len(secs) THEN secs[k + 1].start_idx ELSE Len(md)]]

get_sections(md) == AddEndIdx(md, FindHeadings(md))

\* ---------------------------------------------------- page-marker regex
\* the literal lit occurs in s at position p
LitAt(s, p, lit) ==
  p + Len(lit) - 1 <= Len(s) /\ SubSeq(s, p, p + Len(lit) - 1) = lit

\* position just past the greedy run of digits starting at p
RECURSIVE SkipDigits(_, _)
SkipDigits(s, p) ==
  IF p <= Len(s) /\ IsDigit(s[p]) THEN SkipDigits(s, p + 1) ELSE p

\* int() of a non-empty digit string
RECURSIVE ParseInt(_)
ParseInt(ds) ==
  IF Len(ds) = 1 THEN DigitVal(ds[1])
  ELSE 10 * ParseInt(SubSeq(ds, 1, Len(ds) - 1)) + DigitVal(ds[Len(ds)])

LitPage == <<"P", "a", "g", "e", " ">>
LitOf == <<" ", "o", "f", " ">>

\* r'Page (\d+) of (\d+)' anchored at p: Some(group 1) or None
PageMatch(s, p) ==
  IF LitAt(s, p, LitPage)
  THEN LET a == p + Len(LitPage)
           b == SkipDigits(s, a)
       IN IF b > a /\ LitAt(s, b, LitOf) /\ SkipDigits(s, b + Len(LitOf)) > b + Len(LitOf)
          THEN Some(SubSeq(s, a, b - 1))
          ELSE None
  ELSE None

\* re.search: the leftmost match from p on
RECURSIVE PageSearch(_, _)
PageSearch(s, p) ==
  IF p > Len(s) THEN None
  ELSE LET m == PageMatch(s, p)
       IN IF m # None THEN m ELSE PageSearch(s, p + 1)

\* page_num of one page-map entry
PageNum(tag) ==
  LET m == PageSearch(tag, 1)
  IN IF m # None THEN Some(ParseInt(m[1])) ELSE None

get_page_ranges(pm) ==
  [k \in 1..Len(pm) |->
     [page_num |-> PageNum(pm[k].comment_tag_text),
      start_idx |-> pm[k].start_idx,
      end_idx |-> pm[k].end_idx]]

\* the loop of find_page_for_index from entry k on
RECURSIVE FindPageFrom(_, _, _)
FindPageFrom(pgs, idx, k) ==
  IF k > Len(pgs) THEN None
  ELSE IF idx >= pgs[k].start_idx /\ idx < pgs[k].end_idx THEN pgs[k].page_num
  ELSE FindPageFrom(pgs, idx, k + 1)

\* find_page_for_index with a closed interval test (idx <= end_idx)
RECURSIVE FindPageClosedFrom(_, _, _)
FindPageClosedFrom(pgs, idx, k) ==
  IF k > Len(pgs) THEN None
  ELSE IF idx >= pgs[k].start_idx /\ idx <= pgs[k].end_idx THEN pgs[k].page_num
  ELSE FindPageClosedFrom(pgs, idx, k + 1)

find_page_closed(pgs, idx) == FindPageClosedFrom(pgs, idx, 1)

find_page_for_index(pgs, idx) == FindPageFrom(pgs, idx, 1)

\* ------------------------------------------------------------ metadata
\* m[k] = v on a dict
SetKey(m, k, v) == [x \in DOMAIN m \cup {k} |-> IF x = k THEN v ELSE m[x]]

\* meta_copy that hands back the same object instead of a copy
meta_alias(h, ref) == [heap |-> h, ref |-> ref]

\* meta.copy(): a new object holding the same items
meta_copy(h, ref) == [heap |-> Append(h, h[ref]), ref |-> Len(h) + 1]

\* the meta literal chunk_markdown builds for a section
SectionMeta(section, page_num) ==
  [section_heading |-> section.heading,
   section_level |-> section.level,
   page_num |-> page_num,
   section_start_idx |-> section.start_idx,
   section_end_idx |-> section.end_idx]

\* SectionPage looking up the section's end offset
SectionPageAtEnd(pgs, section) == find_page_for_index(pgs, section.end_idx)

\* page_num of a section in chunk_markdown
SectionPage(pgs, section) == find_page_for_index(pgs, section.start_idx)

\* SectionText that drops the first character of the section
SectionTextSkipFirst(md, section) == SubSeq(md, section.start_idx + 2, section.end_idx)

\* markdown[section['start_idx']:section['end_idx']]
SectionText(md, section) == SubSeq(md, section.start_idx + 1, section.end_idx)

\* range(start, stop, step) still has the element cur
RangeHas(cur, stop, step) == IF step > 0 THEN cur < stop ELSE cur > stop

\* --------------------------------------------------------------- inputs
Alphabet == {HASH, SP, NL, "a"}

\* all texts over Alphabet of length at most n
RECURSIVE Texts(_)
Texts(n) ==
  IF n = 0 THEN {<<>>}
  ELSE LET T == Texts(n - 1)
       IN T \cup {Append(t, c) : t \in {u \in T : Len(u) = n - 1}, c \in Alphabet}

ScenarioA == <<"#", " ", "H", "1", "\n", "f", "o", "o", " ", "b", "a", "r", " ", "b", "a", "z", "\n", "#", " ", "H", "2", "\n", "q", "u", "x">>
SevenHashes == <<"#", "#", "#", "#", "#", "#", "#", " ", "a", "\n", "#", " ", "a", "\n", "#", "#", " ", "a">>
NextLineHeading == <<"#", "\n", "f", "o", "o", "\n">>
SwallowedHeading == <<"#", " ", "\n", "#", "#", " ", "a">>

MarkdownTexts == Texts(MaxLen) \cup {ScenarioA, SevenHashes, NextLineHeading, SwallowedHeading}
SplitTexts == Texts(MaxSplitLen)
Windows == (-1)..MaxWin

TagPage1 == <<"P", "a", "g", "e", " ", "1", " ", "o", "f", " ", "2">>
TagPage2 == <<"P", "a", "g", "e", " ", "2", " ", "o", "f", " ", "2">>
TagPage12 == <<"<", "!", "-", "-", " ", "P", "a", "g", "e", "N", "u", "m", "b", "e", "r", "=", "\"", "P", "a", "g", "e", " ", "1", "2", " ", "o", "f", " ", "4", "0", "\"", " ", "-", "-", ">">>
TagNoNumber == <<"P", "a", "g", "e", " ", "x", " ", "o", "f", " ", "2">>
Tags == {TagPage1, TagPage2, TagNoNumber}

Entry(tag, a, b) == [comment_tag_text |-> tag, start_idx |-> a, end_idx |-> b]
Entries == {Entry(t, a, b) : t \in Tags, a \in 0..MaxOff, b \in 0..MaxOff}

RECURSIVE Maps(_)
Maps(n) ==
  IF n = 0 THEN {<<>>}
  ELSE LET M == Maps(n - 1)
       IN M \cup {Append(m, e) : m \in {u \in M : Len(u) = n - 1}, e \in Entries}

ScenarioBMap == <<Entry(TagPage1, 0, 10), Entry(TagPage2, 10, 20)>>
GapMap == <<Entry(TagPage1, 0, 3), Entry(TagPage2, 4, 8)>>
OverlapMap == <<Entry(TagPage12, 0, 4), Entry(TagNoNumber, 2, 30), Entry(TagPage2, 0, 30)>>
PipelineMaps == {GapMap, OverlapMap}
LookupMaps == Maps(MaxPages) \cup {ScenarioBMap, OverlapMap}
Offsets == 0..(MaxOff + 1) \cup {9, 10, 20, 25}

CallerMetas == {[doc |-> <<"a">>], [doc |-> <<"a">>, chunk_start_token |-> 7]}

\* ---------------------------------------------------------------- state
VARIABLES
  call,        \* which entry point the caller invoked
  markdown,    \* chunk_markdown: markdown
  page_map,    \* chunk_markdown / get_page_ranges: page_map
  n_tokens,    \* window size argument
  pc,          \* control position
  error,       \* exception that left the entry point, or "none"
  pages,       \* chunk_markdown: pages
  sections,    \* chunk_markdown: sections
  sec,         \* chunk_markdown: position of the for loop over sections
  all_chunks,  \* chunk_markdown: all_chunks
  text,        \* recursive_chunk: text
  meta,        \* recursive_chunk: meta (object reference)
  tokens,      \* recursive_chunk: tokens
  chunks,      \* recursive_chunk: chunks
  nxt,         \* recursive_chunk: next element of the range iterator
  i,           \* recursive_chunk: i (None while unbound)
  chunk_text,  \* recursive_chunk: chunk_text
  chunk_meta,  \* recursive_chunk: chunk_meta (object reference, None while unbound)
  heap,        \* dict objects by reference
  calls,       \* history: reference and items of meta at each recursive_chunk call
  result,      \* value returned by chunk_markdown / recursive_chunk
  idx,         \* find_page_for_index: idx
  found        \* value returned by find_page_for_index

vars == <<call, markdown, page_map, n_tokens, pc, error, pages, sections, sec,
          all_chunks, text, meta, tokens, chunks, nxt, i, chunk_text,
          chunk_meta, heap, calls, result, idx, found>>

cmVars == <<pages, sections, sec, all_chunks>>
rcVars == <<text, meta, tokens, chunks, nxt, i, chunk_text, chunk_meta>>
inVars == <<call, markdown, page_map, n_tokens>>

Blank ==
  /\ error = "none"
  /\ pages = <<>> /\ sections = <<>> /\ sec = 0 /\ all_chunks = <<>>
  /\ tokens = <<>> /\ chunks = <<>> /\ nxt = 0 /\ i = None
  /\ chunk_text = <<>> /\ chunk_meta = None
  /\ result = None /\ idx = 0 /\ found = None

\* chunk_markdown(markdown, page_map, n_tokens)
InitPipeline ==
  /\ call = "chunk_markdown"
  /\ markdown \in MarkdownTexts
  /\ page_map \in PipelineMaps
  /\ n_tokens \in Windows
  /\ pc = "pages"
  /\ text = <<>> /\ meta = 0 /\ heap = <<>> /\ calls = <<>>
  /\ Blank

\* recursive_chunk(text, meta, n_tokens) called directly
InitSplit ==
  /\ call = "recursive_chunk"
  /\ markdown = <<>> /\ page_map = <<>>
  /\ text \in SplitTexts
  /\ n_tokens \in Windows
  /\ \E m \in CallerMetas : heap = <<m>> /\ calls = <<[ref |-> 1, items |-> m]>>
  /\ meta = 1
  /\ pc = "rc_enter"
  /\ Blank

\* find_page_for_index(get_page_ranges(page_map), idx)
InitLookup ==
  /\ call = "find_page_for_index"
  /\ markdown = <<>> /\ n_tokens = 1
  /\ page_map \in LookupMaps
  /\ pc = "pages"
  /\ text = <<>> /\ meta = 0 /\ heap = <<>> /\ calls = <<>>
  /\ Blank

Init == InitPipeline \/ InitSplit \/ InitLookup

\* -------------------------------------------------------------- actions
\* pages = get_page_ranges(page_map)
GetPageRanges ==
  /\ pc = "pages"
  /\ pages' = get_page_ranges(page_map)
  /\ pc' = IF call = "chunk_markdown" THEN "cm_sections" ELSE "lk_find"
  /\ UNCHANGED <<inVars, error, sections, sec, all_chunks, rcVars, heap, calls,
                 result, idx, found>>

\* find_page_for_index(pages, idx) for a caller-chosen idx
FindPage ==
  /\ pc = "lk_find"
  /\ \E k \in Offsets :
       /\ idx' = k
       /\ found' = find_page_for_index(pages, k)
  /\ pc' = "done"
  /\ UNCHANGED <<inVars, error, cmVars, rcVars, heap, calls, result>>

\* sections = get_sections(markdown); all_chunks = []
GetSections ==
  /\ pc = "cm_sections"
  /\ sections' = get_sections(markdown)
  /\ all_chunks' = <<>>
  /\ sec' = 1
  /\ pc' = "cm_for"
  /\ UNCHANGED <<inVars, error, pages, rcVars, heap, calls, result, idx, found>>

\* one iteration of the section loop up to the call of recursive_chunk
SectionCall ==
  /\ pc = "cm_for"
  /\ sec <= Len(sections)
  /\ LET section == sections[sec]
         page_num == SectionPage(pages, section)
         m == SectionMeta(section, page_num)
     IN /\ heap' = Append(heap, m)
        /\ meta' = Len(heap) + 1
        /\ text' = SectionText(markdown, section)
        /\ calls' = Append(calls, [ref |-> Len(heap) + 1, items |-> m])
  /\ pc' = "rc_enter"
  /\ UNCHANGED <<inVars, error, cmVars, tokens, chunks, nxt, i, chunk_text,
                 chunk_meta, result, idx, found>>

\* recursive_chunk: tokens = text.split(); chunks = []; range(0, len(tokens), n_tokens)
SplitEnter ==
  /\ pc = "rc_enter"
  /\ n_tokens # 0
  /\ tokens' = split(text)
  /\ chunks' = <<>>
  /\ nxt' = 0
  /\ i' = None /\ chunk_text' = <<>> /\ chunk_meta' = None
  /\ pc' = "rc_for"
  /\ UNCHANGED <<inVars, error, cmVars, text, meta, heap, calls, result, idx, found>>

\* range() with step 0 raises ValueError, which leaves every caller
RaiseValueError ==
  /\ pc = "rc_enter"
  /\ n_tokens = 0
  /\ tokens' = split(text)
  /\ chunks' = <<>>
  /\ error' = "ValueError"
  /\ pc' = "raised"
  /\ UNCHANGED <<inVars, cmVars, text, meta, nxt, i, chunk_text, chunk_meta,
                 heap, calls, result, idx, found>>

\* loop body: chunk_text = ' '.join(tokens[i:i+n_tokens]); chunk_meta = meta.copy()
SplitBody ==
  /\ pc = "rc_for"
  /\ RangeHas(nxt, Len(tokens), n_tokens)
  /\ i' = Some(nxt)
  /\ nxt' = nxt + n_tokens
  /\ chunk_text' = join(Slice(tokens, nxt, nxt + n_tokens))
  /\ LET c == meta_copy(heap, meta)
     IN heap' = c.heap /\ chunk_meta' = Some(c.ref)
  /\ UNCHANGED <<inVars, pc, error, cmVars, text, meta, tokens, chunks, calls,
                 result, idx, found>>

\* after the loop: set the token keys on chunk_meta and append one chunk
SplitAppend ==
  /\ pc = "rc_for"
  /\ ~RangeHas(nxt, Len(tokens), n_tokens)
  /\ i # None
  /\ heap' = [heap EXCEPT ![chunk_meta[1]] =
                SetKey(SetKey(@, "chunk_start_token", i[1]),
                       "chunk_end_token", i[1] + Len(split(chunk_text)))]
  /\ chunks' = Append(chunks, [content |-> chunk_text, meta |-> chunk_meta[1]])
  /\ pc' = "rc_return"
  /\ UNCHANGED <<inVars, error, cmVars, text, meta, tokens, nxt, i, chunk_text,
                 chunk_meta, calls, result, idx, found>>

\* after a loop that never ran, i and chunk_meta are unbound: UnboundLocalError
RaiseUnbound ==
  /\ pc = "rc_for"
  /\ ~RangeHas(nxt, Len(tokens), n_tokens)
  /\ i = None
  /\ error' = "UnboundLocalError"
  /\ pc' = "raised"
  /\ UNCHANGED <<inVars, cmVars, rcVars, heap, calls, result, idx, found>>

\* return chunks, to chunk_markdown (all_chunks.extend) or to the caller
SplitReturn ==
  /\ pc = "rc_return"
  /\ IF call = "chunk_markdown"
     THEN /\ all_chunks' = all_chunks \o chunks
          /\ sec' = sec + 1
          /\ pc' = "cm_for"
          /\ UNCHANGED result
     ELSE /\ result' = Some(chunks)
          /\ pc' = "done"
          /\ UNCHANGED <<all_chunks, sec>>
  /\ UNCHANGED <<inVars, error, pages, sections, rcVars, heap, calls, idx, found>>

\* chunk_markdown: return all_chunks
PipelineReturn ==
  /\ pc = "cm_for"
  /\ sec > Len(sections)
  /\ result' = Some(all_chunks)
  /\ pc' = "done"
  /\ UNCHANGED <<inVars, error, cmVars, rcVars, heap, calls, idx, found>>

Next ==
  \/ GetPageRanges
  \/ FindPage
  \/ GetSections
  \/ SectionCall
  \/ SplitEnter
  \/ RaiseValueError
  \/ SplitBody
  \/ SplitAppend
  \/ RaiseUnbound
  \/ SplitReturn
  \/ PipelineReturn

Spec == Init /\ [][Next]_vars

TypeOK ==
  /\ pc \in {"pages", "lk_find", "cm_sections", "cm_for", "rc_enter", "rc_for",
             "rc_return", "raised", "done"}
  /\ error \in {"none", "ValueError", "UnboundLocalError"}

\* ------------------------------------------------- property vocabulary
RECURSIVE Concat(_)
Concat(ss) == IF ss = <<>> THEN <<>> ELSE Head(ss) \o Concat(Tail(ss))

\* token window of each chunk of a chunk list
TokenWindows(cs) == [k \in 1..Len(cs) |-> split(cs[k].content)]

Contents(cs) == [k \in 1..Len(cs) |-> cs[k].content]

\* chunks handed out so far by the running entry point
Emitted ==
  IF call = "chunk_markdown"
  THEN IF pc = "rc_return" THEN all_chunks \o chunks ELSE all_chunks
  ELSE chunks

\* entries of a page map whose half-open range holds offset o
Containing(pm, o) == {k \in 1..Len(pm) : pm[k].start_idx <= o /\ o < pm[k].end_idx}

\* page number of the first entry in map order holding o, None if there is none
FirstContaining(pm, o) ==
  LET S == Containing(pm, o)
  IN IF S = {} THEN None
     ELSE PageNum(pm[CHOOSE k \in S : \A j \in S : k <= j].comment_tag_text)

SectionsReady == call = "chunk_markdown" /\ pc \notin {"pages", "cm_sections"}

TokenKeys == {"chunk_start_token", "chunk_end_token"}

\* ---------------------------------------------------------------- claims

\* C1: recursive_chunk on T >= 1 tokens with window W >= 1 returns
\* ceil(T / W) chunks in ascending token order, all of W tokens except the
\* last (1..W), whose windows concatenate to the full token sequence.
C1_ChunkCoverage ==
  (pc = "rc_return" /\ n_tokens >= 1 /\ Len(split(text)) >= 1) =>
    LET T == Len(split(text))
        W == n_tokens
        ws == TokenWindows(chunks)
    IN /\ Len(chunks) = (T + W - 1) \div W
       /\ \A k \in 1..Len(ws) :
            IF k < Len(ws) THEN Len(ws[k]) = W ELSE Len(ws[k]) \in 1..W
       /\ \A k \in 1..(Len(chunks) - 1) :
            heap[chunks[k].meta].chunk_start_token
              < heap[chunks[k + 1].meta].chunk_start_token
       /\ Concat(ws) = split(text)

\* C2: with at least one heading, sections are in strictly ascending start
\* order, each ends where the next starts, the last ends at len(text), and
\* every offset of [first start, len(text)) lies in exactly one section.
C2_SectionsPartition ==
  (SectionsReady /\ Len(sections) >= 1) =>
    LET n == Len(sections)
    IN /\ \A k \in 1..(n - 1) :
            /\ sections[k].start_idx < sections[k + 1].start_idx
            /\ sections[k].end_idx = sections[k + 1].start_idx
       /\ sections[n].end_idx = Len(markdown)
       /\ \A o \in 0..Len(markdown) :
            LET holders == {k \in 1..n : sections[k].start_idx <= o
                                         /\ o < sections[k].end_idx}
            IN IF sections[1].start_idx <= o /\ o < Len(markdown)
               THEN Cardinality(holders) = 1
               ELSE holders = {}

C2_Witness ==
  /\ SectionsReady /\ pc = "done"
  /\ Len(sections) >= 2
  /\ sections[1].start_idx > 0

\* C3: find_page_for_index over get_page_ranges returns the page number of
\* the first entry in map order with start <= offset < end, None when no
\* entry holds the offset, and never raises.
C3_FirstHalfOpenMatch ==
  (call = "find_page_for_index" /\ pc = "done") =>
    /\ error = "none"
    /\ found = FirstContaining(page_map, idx)
    /\ (page_map = ScenarioBMap /\ idx = 9) => found = Some(1)
    /\ (page_map = ScenarioBMap /\ idx = 10) => found = Some(2)
    /\ (page_map = ScenarioBMap /\ idx = 25) => found = None

C3_Witness ==
  /\ call = "find_page_for_index" /\ pc = "done"
  /\ Len(page_map) = 2
  /\ page_map[1].end_idx = idx
  /\ Containing(page_map, idx) = {2}
  /\ found = Some(1)

\* C4: chunk_markdown emits chunks in section order, and each chunk's
\* metadata carries heading, level, start and end of the section it was cut
\* from and the page looked up for that section's start offset.
C4_SectionLineage ==
  SectionsReady =>
    /\ \A j \in 1..Len(Emitted) :
         LET m == heap[Emitted[j].meta]
         IN \E k \in 1..Len(sections) :
              /\ m.section_start_idx = sections[k].start_idx
              /\ m.section_end_idx = sections[k].end_idx
              /\ m.section_heading = sections[k].heading
              /\ m.section_level = sections[k].level
              /\ m.page_num = FirstContaining(page_map, sections[k].start_idx)
              /\ Emitted[j].content =
                   join(Slice(split(SectionText(markdown, sections[k])),
                              m.chunk_start_token, m.chunk_end_token))
    /\ \A j1, j2 \in 1..Len(Emitted) :
         j1 < j2 => heap[Emitted[j1].meta].section_start_idx
                      <= heap[Emitted[j2].meta].section_start_idx
    /\ pc = "done" => result = Some(all_chunks)

C4_Witness ==
  /\ SectionsReady /\ pc = "done"
  /\ Len(result[1]) >= 2
  /\ heap[result[1][1].meta].page_num # None
  /\ heap[result[1][2].meta].page_num # heap[result[1][1].meta].page_num
  /\ FirstContaining(page_map, sections[1].end_idx)
       # FirstContaining(page_map, sections[1].start_idx)

\* C5: with a window size <= 0 both entry points fail with
\* InvalidConfiguration before any splitting, and produce no output,
\* whether or not the text has headings.
C5_NonPositiveWindowFails ==
  (call \in {"chunk_markdown", "recursive_chunk"} /\ n_tokens <= 0) =>
    /\ result = None
    /\ error \in {"none", "InvalidConfiguration"}
    /\ pc \notin {"rc_for", "rc_return"}
    /\ Emitted = <<>>

\* C6: every emitted chunk owns its own copy of the inherited metadata with
\* the token keys set for its window; no two chunks share a metadata
\* object, none uses the caller's mapping, and that mapping is unchanged.
C6_IndependentMetadata ==
  /\ \A j1, j2 \in 1..Len(Emitted) :
       j1 # j2 => Emitted[j1].meta # Emitted[j2].meta
  /\ \A j \in 1..Len(Emitted) : \A c \in 1..Len(calls) :
       Emitted[j].meta # calls[c].ref
  /\ \A c \in 1..Len(calls) : heap[calls[c].ref] = calls[c].items
  /\ \A j \in 1..Len(Emitted) :
       LET m == heap[Emitted[j].meta]
       IN /\ TokenKeys \subseteq DOMAIN m
          /\ m.chunk_end_token - m.chunk_start_token
               = Len(split(Emitted[j].content))
          /\ \E c \in 1..Len(calls) :
               /\ DOMAIN m = DOMAIN calls[c].items \cup TokenKeys
               /\ \A key \in DOMAIN calls[c].items \ TokenKeys :
                    m[key] = calls[c].items[key]

C6_Witness ==
  /\ call = "chunk_markdown" /\ pc = "done"
  /\ Len(result[1]) >= 2
  /\ Len(tokens) > n_tokens

C8_NoTokensNoChunks ==
  (call = "recursive_chunk" /\ n_tokens >= 1 /\ split(text) = <<>>) =>
    /\ error = "none"
    /\ pc = "done" => result = Some(<<>>)

\* a line, given by its start position, and its shape as a heading line
LineStarts(s) == {p \in 1..Len(s) : AtLineStart(s, p)}
LineAt(s, p) == SubSeq(s, p, LineEnd(s, p) - 1)
MarkerOk(line) ==
  LET h == HashRun(line, 1)
  IN h >= 1 /\ h <= 6 /\ h < Len(line) /\ IsSpace(line[h + 1])
LineHeading(line) == strip(SubSeq(line, HashRun(line, 1) + 1, Len(line)))

\* C9: get_sections emits a section exactly for the lines made of 1..6 '#',
\* whitespace and heading text, in document order, with level the number of
\* '#' and heading the trimmed rest of that same line; a '#' run followed
\* only by a line break yields none and no heading comes from a later line.
C9_HeadingLinesOnly ==
  SectionsReady =>
    /\ \A k \in 1..Len(sections) :
         LET p == sections[k].start_idx + 1
             line == LineAt(markdown, p)
         IN /\ AtLineStart(markdown, p)
            /\ MarkerOk(line)
            /\ sections[k].level = HashRun(line, 1)
            /\ sections[k].heading = LineHeading(line)
    /\ \A p \in LineStarts(markdown) :
         (MarkerOk(LineAt(markdown, p)) /\ LineHeading(LineAt(markdown, p)) # <<>>)
           => \E k \in 1..Len(sections) : sections[k].start_idx = p - 1
    /\ \A k \in 1..(Len(sections) - 1) :
         sections[k].start_idx < sections[k + 1].start_idx

\* C10: for n_tokens >= 1 chunk_markdown never raises: every section is
\* non-empty and holds at least one token, recursive_chunk is never entered
\* with an empty token stream, and every section contributes a chunk.
C10_PipelineNeverRaises ==
  (call = "chunk_markdown" /\ n_tokens >= 1) =>
    /\ error = "none" /\ pc # "raised"
    /\ \A k \in 1..Len(sections) :
         /\ sections[k].start_idx < sections[k].end_idx
         /\ Len(split(SectionText(markdown, sections[k]))) >= 1
    /\ pc \in {"rc_enter", "rc_for", "rc_return"} => split(text) # <<>>
    /\ pc = "done" =>
         /\ result # None
         /\ \A k \in 1..Len(sections) : \E j \in 1..Len(result[1]) :
              heap[result[1][j].meta].section_start_idx = sections[k].start_idx

C10_Witness ==
  /\ call = "chunk_markdown" /\ n_tokens >= 1 /\ pc = "done"
  /\ Len(sections) >= 2
  /\ Len(result[1]) = Len(sections)
  /\ \E k \in 1..Len(sections) : sections[k].heading = <<>>
====
